---- MODULE Spec2Model ----
(***************************************************************************)
(* A state-machine model of pydsge's parameter store and system compiler   *)
(* (src/pydsge/core.py: get_sys, get_par, set_par, prior_sampler) and of   *)
(* the filter constructor (src/pydsge/filtering.py: create_filter).        *)
(*                                                                         *)
(* The model object (`dsge`) is one record; an attribute that Python would   *)
(* not have yet (hasattr(self, ...) false) or that is None is <<>>, and a  *)
(* present value x is <<x>>.  Numerical collaborators that live outside    *)
(* the source (pcompile, the structural matrices, re_bk, svd, preprocess,  *)
(* eig) are deterministic functions of the parameters: `numerics` is the   *)
(* outcome they have for each value of the first parameter, drawn once in  *)
(* Init and fixed for the behaviour.  A numerical array is kept as the     *)
(* index lists that the code's boolean-mask selections leave of it,        *)
(* together with the compiled parameter object it was computed from.       *)
(***************************************************************************)
EXTENDS Integers, Sequences, FiniteSets, TLC

VARIABLES dsge, numerics, op, call, err, msgs, ret, wk

vars == <<dsge, numerics, op, call, err, msgs, ret, wk>>

\* ------------------------------------------------------------------ bounds
\* number of model variables (len(self.variables))
NumVars == 3
\* number of structural parameters (len(self.par_fix))
NumPars == 2
\* largest retry counter a sampling worker is followed to
MaxNo == 3
\* largest l_max / k_max a caller passes
MaxDepth == 3

\* ----------------------------------------------------------- Python values
None == <<>>
Some(x) == <<x>>
Has(o) == o # <<>>
The(o) == o[1]
\* Python truthiness of None / False / True
Truthy(o) == o = <<TRUE>>
OptBool == {None, Some(TRUE), Some(FALSE)}

Vars == 1..NumVars
ParVals == {0, 1}
ParVecs == [1..NumPars -> ParVals]

\* numpy boolean-mask selection a[keep] on a sequence of the same length
RECURSIVE Compress(_, _)
Compress(s, keep) ==
  IF s = <<>> \/ keep = <<>> THEN <<>>
  ELSE (IF Head(keep) THEN <<Head(s)>> ELSE <<>>) \o Compress(Tail(s), Tail(keep))

\* ~mask
Neg(mask) == [i \in DOMAIN mask |-> ~mask[i]]
\* sum(mask)
Count(mask) == Len(Compress(mask, mask))
\* mask1 & mask2
And(m1, m2) == [i \in DOMAIN m1 |-> m1[i] /\ m2[i]]
Iota(n) == [i \in 1..n |-> i]
AllFalse(n) == [i \in 1..n |-> FALSE]
BoolSeqs(n) == [1..n -> BOOLEAN]
\* list(s).index(x); 0 when x is not in s (Python raises ValueError)
IndexOf(s, x) == IF \E i \in DOMAIN s : s[i] = x
                 THEN CHOOSE i \in DOMAIN s : s[i] = x /\ \A j \in 1..(i-1) : s[j] # x
                 ELSE 0
\* np.delete(s, i)
Delete(s, i) == [j \in 1..(Len(s)-1) |-> IF j < i THEN s[j] ELSE s[j+1]]

\* ------------------------------------------------------- the model's names
\* names of the structural parameters: the last one is x_bar when the model
\* declares x_bar as a structural parameter
NamePool == <<"alpha", "beta", "gamma", "delta", "eps", "zeta">>
ParNames(xk) == [i \in 1..NumPars |->
                   IF i = NumPars /\ xk = "struct" THEN "x_bar" ELSE NamePool[i]]
\* names of the functional parameters (self.parafunc[0])
PfNames(xk) == IF xk = "func" THEN <<"kappa", "x_bar">> ELSE <<"kappa">>
\* self.parafunc[1](par): the derived values, in the order of PfNames
PfFunc(xk, par) == IF xk = "func" THEN <<par[1] + par[NumPars], par[1] - 3>>
                   ELSE <<par[1] + par[NumPars]>>
\* indices of the estimated subset (self.prior_arg): all but the first
prior_arg == [i \in 1..(NumPars-1) |-> i + 1]
\* the calibration of the yaml (self.par_fix, what self.p0() returns)
par_fix == [i \in 1..NumPars |-> 0]
p0 == par_fix

\* ------------------------------------------------- symbolic numeric values
pcompile(par) == [pcompiled |-> par]
QQ(x, tag) == [QQ |-> x, arg |-> tag]

\* ------------------------------------------------------------ exceptions
NoErr == [type |-> "", n |-> 0]
Exc(t) == [type |-> t, n |-> 0]
Result(s, x, m) == [self |-> s, err |-> x, msgs |-> m]

\* ------------------------------------------------------- cached matrix P
Zero == <<0, 0>>
Zeros(n) == [i \in 1..n |-> [j \in 1..n |-> Zero]]
Shape(M) == <<Len(M), IF Len(M) = 0 THEN 0 ELSE Len(M[1])>>
\* can a value of shape sv be assigned to an indexing result of shape st
Broadcasts(sv, st) == \A d \in 1..2 : sv[d] = st[d] \/ sv[d] = 1

\* core.py:181-190, the reconciliation of a cached P with the new mask.
\* stored is self.out_msk (just computed), applied is s_out_msk.
reconcile(P, stored, applied) ==
  IF ~Has(P) THEN [P |-> P, err |-> NoErr, msgs |-> {}]
  ELSE LET old == The(P)
           k == Count(Neg(stored)) IN
    IF Len(old) < Count(Neg(applied)) THEN
      \* P_new[~self.out_msk][:, ~self.out_msk] = self.P assigns into the copy
      \* that the boolean index makes: P_new stays zero, and the assignment
      \* raises unless self.P broadcasts to the (k, k) indexing result
      LET m == IF <<k, k>> # Shape(old) THEN {"shape missmatch"} ELSE {} IN
      IF Broadcasts(Shape(old), <<k, k>>)
      THEN [P |-> Some(Zeros(Len(stored))), err |-> NoErr, msgs |-> m]
      ELSE [P |-> P, err |-> Exc("ValueError:broadcast"), msgs |-> m]
    ELSE IF Len(old) > Count(Neg(applied)) THEN
      \* self.P[~s_out_msk][:, ~s_out_msk]: the boolean index must have the
      \* length of the indexed dimension
      IF Len(applied) # Shape(old)[1] \/ Len(applied) # Shape(old)[2]
      THEN [P |-> P, err |-> Exc("IndexError:mask"), msgs |-> {}]
      ELSE [P |-> Some([i \in 1..Count(Neg(applied)) |->
                          Compress(Compress(old, Neg(applied))[i], Neg(applied))]),
            err |-> NoErr, msgs |-> {}]
    ELSE [P |-> P, err |-> NoErr, msgs |-> {}]

\* ------------------------------------------------------------- get_sys
\* mutant: a stored lookahead is adjusted again when l_max is omitted
l_max_eff_again(self, a) ==
  IF Has(a.l_max) THEN (IF The(a.l_max) < 2 THEN 2 ELSE The(a.l_max)) + 1
  ELSE IF Has(self.lks) THEN The(self.lks)[1] + 1
  ELSE IF a.linear THEN 1 ELSE 3

\* core.py:46-48, the message about a lookahead below 2
l_max_msgs(a) ==
  IF Has(a.l_max) /\ The(a.l_max) < 2 THEN {"l_max must be at least 2"} ELSE {}

\* what a call printed before the rest of it ran
Printed(m, r) == [r EXCEPT !.msgs = m \cup r.msgs]

\* core.py:45-56, the effective lookahead
l_max_eff(self, a) ==
  IF Has(a.l_max) THEN (IF The(a.l_max) < 2 THEN 2 ELSE The(a.l_max)) + 1
  ELSE IF Has(self.lks) THEN The(self.lks)[1]
  ELSE IF a.linear THEN 1 ELSE 3

\* core.py:58-63
k_max_eff(self, a) ==
  IF Has(a.k_max) THEN The(a.k_max)
  ELSE IF Has(self.lks) THEN The(self.lks)[2]
  ELSE IF a.linear THEN 0 ELSE 17

\* core.py:40-41
reduce_sys_eff(self, a) ==
  IF a.reduce_sys # None THEN a.reduce_sys ELSE self.fdict.reduce_sys

\* mutant: the stored setting is never inherited
ignore_tests_arg_only(self, a) == a.ignore_tests

\* core.py:42-43
ignore_tests_eff(self, a) ==
  IF a.ignore_tests # None THEN a.ignore_tests ELSE self.fdict.ignore_tests

\* mutant: a functional x_bar is not looked up, the default is taken
x_bar_no_func(self, par) ==
  IF IndexOf(self.parameters, "x_bar") # 0
  THEN [x_bar |-> par[IndexOf(self.parameters, "x_bar")], msgs |-> {}]
  ELSE [x_bar |-> -1, msgs |-> {"x_bar not specified"}]

\* core.py:152-159, the constraint bound and the text printed with it
x_bar_of(self, par) ==
  IF IndexOf(self.parameters, "x_bar") # 0
  THEN [x_bar |-> par[IndexOf(self.parameters, "x_bar")], msgs |-> {}]
  ELSE IF IndexOf(self.pfnames, "x_bar") # 0
  THEN [x_bar |-> PfFunc(self.xk, par)[IndexOf(self.pfnames, "x_bar")], msgs |-> {}]
  ELSE [x_bar |-> -1, msgs |-> {"x_bar not specified"}]

\* core.py:215-220, the number of eigenvalues of the tested block above 1
explosive(eigs) == Count([i \in DOMAIN eigs |-> eigs[i] > 1])

\* mutant: b2 is emitted without the mask selection
sys_b2_unmasked(ppar, dim_x, out_msk, x_bar) ==
  LET m == Len(out_msk)
      kept == Compress(Iota(m), Neg(out_msk)) IN
  <<[rows |-> kept, cols |-> kept, of |-> ppar],
    [rows |-> kept, cols |-> kept, of |-> ppar],
    [rows |-> Iota(dim_x), cols |-> kept, of |-> ppar],
    [idx |-> kept, of |-> ppar],
    [idx |-> Iota(m), of |-> ppar],
    x_bar>>

\* core.py:201-207, the emitted system (N2, A2, J2, cx, b2, x_bar): each
\* array as the indices its mask selection keeps
sys_of(ppar, dim_x, out_msk, x_bar) ==
  LET m == Len(out_msk)
      kept == Compress(Iota(m), Neg(out_msk)) IN
  <<[rows |-> kept, cols |-> kept, of |-> ppar],
    [rows |-> kept, cols |-> kept, of |-> ppar],
    [rows |-> Iota(dim_x), cols |-> kept, of |-> ppar],
    [idx |-> kept, of |-> ppar],
    [idx |-> kept, of |-> ppar],
    x_bar>>

\* core.py:171-222, from the mask to the stability test
get_sys_emit(s2, par, ppar, reduce_sys, ignore_tests, e, vx, dim_x, xb) ==
  LET \* out_msk over the extended variables, its tail masked by ZZ
      stored == And(e.inert_v, e.zz0)
      s3 == [s2 EXCEPT !.out_msk = Some(stored)]
      applied == IF ~Truthy(reduce_sys) THEN AllFalse(NumVars) ELSE stored
      out_msk == e.inert_x \o applied
      rc == reconcile(s3.P, stored, applied)
      s4 == [s3 EXCEPT !.P = rc.P]
      vv == Compress(Iota(NumVars), Neg(applied))
      s5 == [s4 EXCEPT !.vv = Some(vv), !.vx = Some(vx),
                       !.dim_x = Some(dim_x), !.dim_v = Some(Len(vv)),
                       !.hx = Some([ZZ |-> ppar, cols |-> vv]),
                       !.SIG = Some([BB_D |-> ppar, rows |-> vv]),
                       !.sys = Some(sys_of(ppar, dim_x, out_msk, xb.x_bar))]
      \* preprocess(self, self.lks[0], self.lks[1], verbose)
      \* with the eigenvalue moduli of the block that the stability test reads
      s6 == [s5 EXCEPT !.precalc_mat = Some([l_max |-> The(s5.lks)[1],
                                             k_max |-> The(s5.lks)[2],
                                             of |-> ppar, eigs |-> e.eigs])]
      ms == xb.msgs \cup rc.msgs IN
  IF rc.err # NoErr THEN Result(s4, rc.err, ms)
  ELSE IF ~Truthy(ignore_tests) /\ explosive(e.eigs) > 0
  THEN Result(s6, [type |-> "ValueError:explosive", n |-> explosive(e.eigs)], ms)
  ELSE Result(s6, NoErr, ms)

\* mutant: the mask is stored before the future-dependence check
get_sys_solve_early(s2, par, ppar, reduce_sys, ignore_tests, e) ==
  IF ~Has(s2.const_var) THEN Result(s2, Exc("NotImplementedError:OBC"), {})
  ELSE LET vv_x2 == Compress(Iota(NumVars), e.in_x)
           c_arg == IndexOf(vv_x2, The(s2.const_var)) IN
    IF c_arg = 0 THEN Result(s2, Exc("ValueError:index"), {})
    ELSE LET vv_x3 == Delete(vv_x2, c_arg)
             dim_x == Len(vv_x3)
             xb == x_bar_of(s2, par) IN
      IF e.bk_fails THEN Result(s2, Exc("BKError"), {})
      ELSE IF e.fut_dep
      THEN Result([s2 EXCEPT !.out_msk = Some(And(e.inert_v, e.zz0))],
                  Exc("NotImplementedError:future"), {})
      ELSE IF e.pf_err THEN Result(s2, Exc("SyntaxError:parafunc"), xb.msgs)
      ELSE get_sys_emit(s2, par, ppar, reduce_sys, ignore_tests, e, vv_x3, dim_x, xb)

\* core.py:79-165, the solve
get_sys_solve(s2, par, ppar, reduce_sys, ignore_tests, e) ==
  IF ~Has(s2.const_var) THEN Result(s2, Exc("NotImplementedError:OBC"), {})
  ELSE LET vv_x2 == Compress(Iota(NumVars), e.in_x)
           c_arg == IndexOf(vv_x2, The(s2.const_var)) IN
    IF c_arg = 0 THEN Result(s2, Exc("ValueError:index"), {})
    ELSE LET vv_x3 == Delete(vv_x2, c_arg)
             dim_x == Len(vv_x3)
             xb == x_bar_of(s2, par) IN
      IF e.bk_fails THEN Result(s2, Exc("BKError"), {})
      ELSE IF e.fut_dep THEN Result(s2, Exc("NotImplementedError:future"), {})
      ELSE IF e.pf_err THEN Result(s2, Exc("SyntaxError:parafunc"), xb.msgs)
      ELSE get_sys_emit(s2, par, ppar, reduce_sys, ignore_tests, e, vv_x3, dim_x, xb)

\* the outcome of the numerical steps of a compilation of par
env_of(num, par) == num[par[1]]

\* core.py:21-222
get_sys(self, a, num) ==
  LET reduce_sys == reduce_sys_eff(self, a)
      ignore_tests == ignore_tests_eff(self, a)
      s1 == [self EXCEPT !.lks = Some(<<l_max_eff(self, a), k_max_eff(self, a)>>),
                         !.fdict = [reduce_sys |-> reduce_sys,
                                    ignore_tests |-> ignore_tests]]
      par == IF a.par = None THEN p0 ELSE a.par
      ppar == pcompile(par)
      s2 == [s1 EXCEPT !.par = par, !.ppar = Some(ppar)] IN
  Printed(l_max_msgs(a),
          get_sys_solve(s2, par, ppar, reduce_sys, ignore_tests, env_of(num, par)))


\* ------------------------------------------------------- get_par, set_par
\* what a call returns or raises, and the object it leaves
Return(s, r, m) == [self |-> s, err |-> NoErr, msgs |-> m, ret |-> r]
Raise(s, x, m) == [self |-> s, err |-> x, msgs |-> m, ret |-> None]

\* the `dummy` argument: None, a string, or a vector
DNone == [kind |-> "none", name |-> "", vec |-> <<>>]
DName(n) == [kind |-> "str", name |-> n, vec |-> <<>>]
DVec(v) == [kind |-> "vec", name |-> "", vec |-> v]

\* the keyword defaults of get_sys (core.py:21)
DefaultArgs == [par |-> None, reduce_sys |-> None, l_max |-> None, k_max |-> None,
                linear |-> FALSE, ignore_tests |-> Some(FALSE)]

\* mutant: the leading entries are taken instead of those at prior_arg
Project_head(v) == [i \in DOMAIN prior_arg |-> v[i]]

\* par[self.prior_arg]
Project(v) == [i \in DOMAIN prior_arg |-> v[prior_arg[i]]]
\* par[self.prior_arg] = cand
Embed(v, cand) == [i \in DOMAIN v |->
                     IF IndexOf(prior_arg, i) # 0 THEN cand[IndexOf(prior_arg, i)] ELSE v[i]]

\* core.py:496-519, the value get_par returns for a candidate
get_par_out(pars, par_cand, full) == IF full THEN Embed(pars, par_cand) ELSE par_cand

\* core.py:449-494, a named parameter set: self.par is reset to the
\* calibration first, and put back only when the name is not known
get_par_token(s, dummy, full, m) ==
  IF dummy.name = "mode" THEN
     IF Has(s.fdict_mode_x)
     THEN Return([s EXCEPT !.par = par_fix],
                 get_par_out(par_fix, The(s.fdict_mode_x), full), m)
     ELSE Raise([s EXCEPT !.par = par_fix], Exc("KeyError:mode_x"), m)
  ELSE IF dummy.name = "calib"
  THEN Return([s EXCEPT !.par = par_fix], get_par_out(par_fix, Project(par_fix), full), m)
  ELSE Raise(s, Exc("KeyError:parametrization"), m)

\* core.py:405-448, the dispatch on dummy once self.par exists
get_par_dispatch(s, dummy, full, m) ==
  IF dummy.kind = "none" THEN Return(s, get_par_out(s.par, Project(s.par), full), m)
  ELSE IF dummy.kind = "vec" /\ Len(dummy.vec) = Len(par_fix)
  THEN Return(s, get_par_out(s.par, Project(dummy.vec), full), m)
  ELSE IF dummy.kind = "vec" /\ Len(dummy.vec) = Len(prior_arg)
  THEN Return(s, get_par_out(s.par, dummy.vec, full), m)
  ELSE IF dummy.kind = "vec" THEN Raise(s, Exc("TypeError"), m)
  ELSE IF IndexOf(s.parameters, dummy.name) # 0
  THEN Return(s, <<s.par[IndexOf(s.parameters, dummy.name)]>>, m)
  ELSE IF IndexOf(s.pfnames, dummy.name) # 0
  THEN Return(s, <<PfFunc(s.xk, s.par)[IndexOf(s.pfnames, dummy.name)]>>, m)
  ELSE get_par_token(s, dummy, full, m)

\* core.py:402-403: g is the compilation that get_par starts with when there
\* are no parameters yet
get_par_compiled(g, dummy, full) ==
  IF g.err # NoErr THEN Raise(g.self, g.err, g.msgs)
  ELSE get_par_dispatch(g.self, dummy, full, g.msgs)

\* core.py:364-519 (npar=None, asdict=False, nsamples=1)
get_par(self, dummy, full, num) ==
  get_par_compiled(IF self.par = None THEN get_sys(self, DefaultArgs, num)
                   ELSE Result(self, NoErr, {}),
                   dummy, full)

\* CO @ CO.T with CO = SIG @ eps_cov
co_cot(SIG, eps_cov) == [SIG |-> SIG, eps_cov |-> eps_cov]

\* core.py:583-595, the attached filter after a recompilation
set_par_filter(s) ==
  IF ~Has(s.filter) THEN Result(s, NoErr, {})
  ELSE IF The(s.filter).name = "KalmanFilter"
  THEN Result([s EXCEPT !.filter =
                 Some([The(s.filter) EXCEPT
                         !.eps_cov = Some(QQ(The(s.ppar), "ppar")),
                         !.Q = Some(co_cot(The(s.SIG), QQ(The(s.ppar), "ppar")))])],
              NoErr, {})
  ELSE IF The(s.filter).name = "ParticleFilter"
  THEN Result([s EXCEPT !.filter =
                 Some([The(s.filter) EXCEPT !.eps_cov = Some(QQ(The(s.ppar), "ppar"))])],
              Exc("NotImplementedError"), {})
  ELSE Result([s EXCEPT !.filter =
                 Some([The(s.filter) EXCEPT
                         !.eps_cov = Some(QQ(The(s.ppar), "ppar")),
                         !.Q = Some([QQ_QQ |-> The(s.ppar)])])],
              NoErr, {})

\* core.py:604, set_par returns get_par(self)
set_par_read(r, m) == [r EXCEPT !.msgs = m \cup r.msgs]

\* core.py:583-604: f is the object after the filter was refreshed
set_par_filtered(f, num, m) ==
  IF f.err # NoErr THEN Raise(f.self, f.err, m)
  ELSE set_par_read(get_par(f.self, DNone, TRUE, num), m)

\* core.py:581-604: g is the compilation of the new parameters
set_par_compiled(g, num, m) ==
  IF g.err # NoErr THEN Raise(g.self, g.err, m \cup g.msgs)
  ELSE set_par_filtered(set_par_filter(g.self), num, m \cup g.msgs)

\* list(par) of what get_par returned (core.py:581)
set_par_list(r) ==
  IF r.err = NoErr /\ Len(r.ret) # Len(par_fix) THEN Raise(r.self, Exc("TypeError"), r.msgs)
  ELSE r

\* self.par, or the calibration when nothing is stored (core.py:550-551)
par_now(self) == IF self.par # None THEN self.par ELSE par_fix

\* mutant: the name of a functional parameter is not refused
set_par_target_no_raise(self, dummy, setpar, num) ==
  IF setpar = None THEN
    IF dummy.kind = "none" THEN get_par(self, dummy, TRUE, num)
    ELSE IF dummy.kind = "vec" /\ Len(dummy.vec) = Len(par_fix)
    THEN Return(self, dummy.vec, {})
    ELSE IF dummy.kind = "vec" /\ Len(dummy.vec) = Len(prior_arg)
    THEN Return(self, Embed(par_now(self), dummy.vec), {})
    ELSE set_par_list(get_par(self, dummy, TRUE, num))
  ELSE IF dummy.kind = "str" /\ IndexOf(self.parameters, dummy.name) # 0
  THEN Return(self, [par_now(self) EXCEPT ![IndexOf(self.parameters, dummy.name)] = The(setpar)], {})
  ELSE IF dummy.kind = "str" /\ IndexOf(self.pfnames, dummy.name) # 0
  THEN Return(self, par_now(self), {})
  ELSE Raise(self, Exc("SyntaxError:undefined"), {})

\* core.py:548-578 (npar=None): the vector that set_par goes on to compile
set_par_target(self, dummy, setpar, num) ==
  IF setpar = None THEN
    IF dummy.kind = "none" THEN get_par(self, dummy, TRUE, num)
    ELSE IF dummy.kind = "vec" /\ Len(dummy.vec) = Len(par_fix)
    THEN Return(self, dummy.vec, {})
    ELSE IF dummy.kind = "vec" /\ Len(dummy.vec) = Len(prior_arg)
    THEN Return(self, Embed(par_now(self), dummy.vec), {})
    ELSE set_par_list(get_par(self, dummy, TRUE, num))
  ELSE IF dummy.kind = "str" /\ IndexOf(self.parameters, dummy.name) # 0
  THEN Return(self, [par_now(self) EXCEPT ![IndexOf(self.parameters, dummy.name)] = The(setpar)], {})
  ELSE IF dummy.kind = "str" /\ IndexOf(self.pfnames, dummy.name) # 0
  THEN Raise(self, Exc("SyntaxError:function"), {})
  ELSE Raise(self, Exc("SyntaxError:undefined"), {})

\* core.py:580-604: t is the vector to compile, or the error raised so far
set_par_go(t, num) ==
  IF t.err # NoErr THEN t
  ELSE set_par_compiled(get_sys(t.self, [DefaultArgs EXCEPT !.par = t.ret], num), num, t.msgs)

\* core.py:527-604 (npar=None)
set_par(self, dummy, setpar, num) == set_par_go(set_par_target(self, dummy, setpar, num), num)

\* ---------------------------------------------------------- create_filter
\* filtering.py:22-48 (P=None, R=None, N=None)
create_filter(self) ==
  IF ~Has(self.vv) \/ ~Has(self.SIG) \/ self.par = None
  THEN Raise(self, Exc("AttributeError"), {})
  ELSE Return([self EXCEPT !.enkf =
                 Some([N |-> 5 * Len(The(self.vv)),
                       Q |-> co_cot(The(self.SIG), QQ(self.par, "par"))])],
              None, {})

\* ------------------------------------------------------------ the sampler
\* np.isinf
isinf(x) == x \in {"inf", "-inf"}
\* what lprob can hand back: a finite value, an infinity, or NaN
LikVals == {"finite", "-inf", "inf", "nan"}
\* a draw from the frozen prior: one value per estimated parameter
Draws == [1..(NumPars-1) -> ParVals]

\* core.py:312-316, a worker before its first attempt
runner_start(test_lprob) ==
  [pc |-> "loop", test_lprob |-> test_lprob, done |-> FALSE, no |-> 0,
   pdraw |-> None, draw_prob |-> "", hist |-> <<>>]

\* core.py:318-339, one pass of the while loop.  `o` is what the attempt
\* meets: "rvs" (the draw itself raises), "raise" (lprob or set_par raises),
\* or the likelihood that lprob returns.
runner_attempt(w, pdraw, o) ==
  LET w1 == [w EXCEPT !.no = w.no + 1, !.hist = Append(w.hist, o)] IN
  IF o = "rvs" THEN w1
  ELSE LET w2 == [w1 EXCEPT !.pdraw = Some(pdraw)] IN
    IF o = "raise" THEN w2
    ELSE IF w.test_lprob
    THEN [w2 EXCEPT !.draw_prob = o, !.done = ~isinf(o)]
    ELSE [w2 EXCEPT !.done = TRUE]

\* ----------------------------------------------------------------- inputs
AllTrue(n) == [i \in 1..n |-> TRUE]
\* the variable the constraint is on
ConstVar == 1

\* outcomes of the numerical collaborators for one compilation
Env(in_x, fault, inert_x, inert_v, zz0, eigs) ==
  [in_x |-> in_x, bk_fails |-> fault = "bk", fut_dep |-> fault = "fut",
   pf_err |-> fault = "pf", inert_x |-> inert_x, inert_v |-> inert_v,
   zz0 |-> zz0, eigs |-> eigs]

\* only the constrained variable is forward looking or in the constraint
OnlyConst == [i \in 1..NumVars |-> i = ConstVar]
\* the observables load on the last variable only
ZZLast == [i \in 1..NumVars |-> i # NumVars]

Faults == {"", "bk", "fut", "pf"}
EigSets == {<<0, 1>>, <<2, 1>>, <<2, 3>>}

\* compilations that differ in how they fail, with nothing to prune
EnvsFault ==
  {Env(OnlyConst, f, <<>>, AllFalse(NumVars), ZZLast, <<0, 1>>) : f \in Faults}
  \cup {Env(OnlyConst, "", <<>>, AllFalse(NumVars), ZZLast, g) : g \in EigSets}
  \cup {Env(AllFalse(NumVars), "", <<>>, AllFalse(NumVars), ZZLast, <<0, 1>>)}

\* the first two variables are forward looking
FirstTwo == [i \in 1..NumVars |-> i <= 2]

\* compilations that succeed and differ in the masks they compute
EnvsMask ==
  {Env(OnlyConst, "", <<>>, iv, AllTrue(NumVars), <<0, 1>>) : iv \in BoolSeqs(NumVars)}
  \cup {Env(OnlyConst, "", <<>>, AllTrue(NumVars), ZZLast, <<0, 1>>)}
  \cup {Env(FirstTwo, "", ix, iv, AllTrue(NumVars), <<0, 1>>) :
          ix \in BoolSeqs(1), iv \in {AllFalse(NumVars), ZZLast}}

\* compilations for the parameter store: one that succeeds and can prune, one
\* that has no stable solution
EnvsPar ==
  {Env(OnlyConst, "", <<>>, ZZLast, AllTrue(NumVars), <<0, 1>>),
   Env(OnlyConst, "bk", <<>>, AllFalse(NumVars), AllTrue(NumVars), <<0, 1>>)}

Args(par, reduce_sys, l_max, k_max, linear, ignore_tests) ==
  [par |-> par, reduce_sys |-> reduce_sys, l_max |-> l_max, k_max |-> k_max,
   linear |-> linear, ignore_tests |-> ignore_tests]

ArgsFault ==
  {Args(p, r, None, None, FALSE, ig) :
     p \in {None, [i \in 1..NumPars |-> 1]}, r \in {None, Some(TRUE)}, ig \in OptBool}

ArgsMask ==
  {[DefaultArgs EXCEPT !.par = p, !.reduce_sys = r] :
     p \in {None, [i \in 1..NumPars |-> 1]}, r \in OptBool}

\* ------------------------------------------------------------------- Init
\* the object after the yaml is parsed: nothing compiled yet
NewModel(xk, const_var) ==
  [xk |-> xk, parameters |-> ParNames(xk), pfnames |-> PfNames(xk),
   const_var |-> const_var,
   fdict |-> [reduce_sys |-> None, ignore_tests |-> None], fdict_mode_x |-> None,
   par |-> None, ppar |-> None, lks |-> None,
   out_msk |-> None, vv |-> None, vx |-> None, dim_x |-> None, dim_v |-> None,
   hx |-> None, SIG |-> None, sys |-> None, precalc_mat |-> None,
   P |-> None, enkf |-> None, filter |-> None]

IdleWorker == [pc |-> "idle", test_lprob |-> FALSE, done |-> FALSE, no |-> 0,
               pdraw |-> None, draw_prob |-> "", hist |-> <<>>]

XbarKinds == {"struct", "func", "none"}

InitOf(xks, cvs, envs) ==
  /\ dsge \in {NewModel(xk, cv) : xk \in xks, cv \in cvs}
  /\ numerics \in [ParVals -> envs]
  /\ op = "" /\ call = DefaultArgs /\ err = NoErr /\ msgs = {} /\ ret = None
  /\ wk = IdleWorker

Init == InitOf(XbarKinds, {None, Some(ConstVar)}, EnvsFault)

\* ---------------------------------------------------------------- actions
\* a call: the object it leaves, and what the caller sees of it
Done(name, a, r, rv) ==
  /\ dsge' = r.self /\ op' = name /\ call' = a
  /\ err' = r.err /\ msgs' = r.msgs /\ ret' = rv
  /\ UNCHANGED <<numerics, wk>>

\* a call that returns a value
DoneRet(name, a, r) == Done(name, a, r, r.ret)

GetSysIn(A) == \E a \in A : Done("get_sys", a, get_sys(dsge, a, numerics), None)

GetSys == GetSysIn(ArgsFault)

Next == GetSys

Spec == Init /\ [][Next]_vars

\* ---- the parameter store and the filter
SetParCall(d, v) ==
  DoneRet("set_par", [dummy |-> d, setpar |-> v], set_par(dsge, d, v, numerics))

\* set_par(name, value): a structural name, a functional one, an unknown one
SetParName ==
  \E n \in {dsge.parameters[1], dsge.parameters[NumPars], "kappa", "nu"}, v \in ParVals :
    SetParCall(DName(n), Some(v))

\* set_par(vector of all parameters)
SetParFull == \E v \in ParVecs : SetParCall(DVec(v), None)

\* set_par(vector of the estimated parameters)
SetParSubset == \E v \in Draws : SetParCall(DVec(v), None)

\* get_par(None), get_par(name), get_par(token)
GetPar ==
  \E c \in {<<DNone, TRUE>>, <<DNone, FALSE>>, <<DName(dsge.parameters[1]), TRUE>>,
            <<DName("kappa"), TRUE>>, <<DName("calib"), TRUE>>, <<DName("mode"), TRUE>>,
            <<DName("nu"), TRUE>>} :
    DoneRet("get_par", [dummy |-> c[1], full |-> c[2]],
            get_par(dsge, c[1], c[2], numerics))

CreateFilter == DoneRet("create_filter", DefaultArgs, create_filter(dsge))

ArgsPar == {DefaultArgs}

GetSysPar == GetSysIn(ArgsPar)

InitPar == InitOf({"struct", "func"}, {Some(ConstVar)}, EnvsPar)

NextPar ==
  SetParName \/ SetParFull \/ SetParSubset \/ GetPar \/ CreateFilter \/ GetSysPar

SpecPar == InitPar /\ [][NextPar]_vars

\* ---- a worker of prior_sampler
RunnerStart ==
  /\ wk.pc = "idle"
  /\ \E t \in BOOLEAN : wk' = runner_start(t)
  /\ UNCHANGED <<dsge, numerics, op, call, err, msgs, ret>>

\* one attempt with test_lprob: lprob is not part of the model object's code;
\* it raises or returns some likelihood
RunnerAttemptLprob ==
  /\ wk.pc = "loop" /\ ~wk.done /\ wk.no < MaxNo /\ wk.test_lprob
  /\ \E pdraw \in Draws, o \in LikVals \cup {"raise", "rvs"} :
       wk' = runner_attempt(wk, pdraw, o)
  /\ UNCHANGED <<dsge, numerics, op, call, err, msgs, ret>>

\* core.py:334-339: r is what set_par(pdraw) did; an exception is swallowed
RunnerSet(pdraw, r) ==
  /\ dsge' = r.self
  /\ wk' = runner_attempt(wk, pdraw, IF r.err # NoErr THEN "raise" ELSE "set")

\* one attempt without test_lprob: the draw is set as the parameters
RunnerAttemptSet ==
  /\ wk.pc = "loop" /\ ~wk.done /\ wk.no < MaxNo /\ ~wk.test_lprob
  /\ \E pdraw \in Draws :
       \/ wk' = runner_attempt(wk, pdraw, "rvs") /\ UNCHANGED dsge
       \/ RunnerSet(pdraw, set_par(dsge, DVec(pdraw), None, numerics))
  /\ UNCHANGED <<numerics, op, call, err, msgs, ret>>

\* core.py:341, the loop is left
RunnerReturn ==
  /\ wk.pc = "loop" /\ wk.done
  /\ wk' = [wk EXCEPT !.pc = "returned"]
  /\ UNCHANGED <<dsge, numerics, op, call, err, msgs, ret>>

InitSampler == InitOf({"none"}, {Some(ConstVar)}, EnvsPar)

NextSampler == RunnerStart \/ RunnerAttemptLprob \/ RunnerAttemptSet \/ RunnerReturn

SpecSampler == InitSampler /\ [][NextSampler]_vars

\* ---- the reduction masks and the cached matrix
\* the cache of the state-transition matrix of the current reduced system:
\* one entry per pair of retained variables, named by the pair
cache_P(self) ==
  [self EXCEPT !.P = Some([i \in 1..Len(The(self.vv)) |->
                             [j \in 1..Len(The(self.vv)) |->
                                <<The(self.vv)[i], The(self.vv)[j]>>]])]

CacheP ==
  /\ Has(dsge.vv)
  /\ Done("cache_P", DefaultArgs, Result(cache_P(dsge), NoErr, {}), None)

GetSysMask == GetSysIn(ArgsMask)

InitMask == InitOf({"none"}, {Some(ConstVar)}, EnvsMask)

NextMask == GetSysMask \/ CacheP

SpecMask == InitMask /\ [][NextMask]_vars

\* ---- the solver depths
\* l_max and k_max as a caller passes them: omitted, or a small integer
DepthArgs == {None} \cup {Some(n) : n \in 0..MaxDepth}

ArgsDepth ==
  {[DefaultArgs EXCEPT !.par = p, !.l_max = l, !.k_max = k, !.linear = lin] :
     p \in {None, [i \in 1..NumPars |-> 1]}, l \in DepthArgs, k \in DepthArgs,
     lin \in BOOLEAN}

GetSysDepth == GetSysIn(ArgsDepth)

InitDepth == InitOf({"none"}, {Some(ConstVar)}, EnvsPar)

NextDepth == GetSysDepth

SpecDepth == InitDepth /\ [][NextDepth]_vars

\* ================================================================ claims
\* the failures of get_sys before the preprocess handoff that C1 lists
PreHandoff == {"NotImplementedError:OBC", "BKError", "NotImplementedError:future",
               "SyntaxError:parafunc"}
FailsBeforeHandoff == op' = "get_sys" /\ err'.type \in PreHandoff

\* C1 as stated: a get_sys that fails before the preprocess handoff leaves
\* par, ppar, lks, the reduce_sys/ignore_tests settings, vv, vx, out_msk and
\* sys as they were before the call.
C1_NoMutationOnFailure ==
  [][FailsBeforeHandoff =>
       /\ dsge'.par = dsge.par /\ dsge'.ppar = dsge.ppar /\ dsge'.lks = dsge.lks
       /\ dsge'.fdict = dsge.fdict
       /\ dsge'.vv = dsge.vv /\ dsge'.vx = dsge.vx
       /\ dsge'.out_msk = dsge.out_msk /\ dsge'.sys = dsge.sys]_vars

\* C1 amended: a get_sys that fails before the preprocess handoff leaves vv,
\* vx, out_msk and sys as they were, while par, ppar, lks and the
\* reduce_sys/ignore_tests settings already hold the values of the failed call.
C1_OutputsKeptInputsOverwritten ==
  [][FailsBeforeHandoff =>
       /\ dsge'.vv = dsge.vv /\ dsge'.vx = dsge.vx
       /\ dsge'.out_msk = dsge.out_msk /\ dsge'.sys = dsge.sys
       /\ dsge'.par = (IF call'.par = None THEN par_fix ELSE call'.par)
       /\ dsge'.ppar = Some([pcompiled |-> dsge'.par])
       /\ Has(dsge'.lks)
       /\ dsge'.fdict.reduce_sys =
            (IF call'.reduce_sys # None THEN call'.reduce_sys ELSE dsge.fdict.reduce_sys)
       /\ dsge'.fdict.ignore_tests =
            (IF call'.ignore_tests # None THEN call'.ignore_tests
             ELSE dsge.fdict.ignore_tests)]_vars

\* C1 witness: a compiled system is stored and a later get_sys has failed in
\* the solve, leaving parameters that the stored system was not compiled from
C1_Witness ==
  /\ op = "get_sys" /\ err.type = "BKError"
  /\ Has(dsge.sys) /\ The(dsge.sys)[1].of # The(dsge.ppar)

\* a get_sys call that got as far as the stability test
ReachedTest == op' = "get_sys" /\ err'.type \in {"", "ValueError:explosive"}
Offending == explosive(The(dsge'.precalc_mat).eigs)
TestOutcome(skipped) ==
  IF skipped \/ Offending = 0 THEN err' = NoErr
  ELSE err' = [type |-> "ValueError:explosive", n |-> Offending]

\* C7 as stated: unless the call itself passes ignore_tests true, get_sys
\* fails with the count of eigenvalues above 1 exactly when there is one,
\* whatever earlier calls chose; with ignore_tests true it never fails so.
C7_TestRunsUnlessCallDisables ==
  [][ReachedTest => TestOutcome(call'.ignore_tests = Some(TRUE))]_vars

\* C7 amended: the test is skipped when the call passes ignore_tests true, or
\* passes None and the setting stored by the previous call is true; otherwise
\* (False, the default, or None with nothing true stored) get_sys fails with
\* the count of eigenvalues above 1 exactly when there is one.
C7_TestRunsUnlessDisabledOrInherited ==
  [][ReachedTest =>
       TestOutcome(Truthy(IF call'.ignore_tests # None THEN call'.ignore_tests
                          ELSE dsge.fdict.ignore_tests))]_vars

\* C7 witness: a call passing None after a call that disabled the test has
\* succeeded although an eigenvalue of the tested block is above 1
C7_Witness ==
  /\ op = "get_sys" /\ err = NoErr /\ call.ignore_tests = None
  /\ dsge.fdict.ignore_tests = Some(TRUE)
  /\ explosive(The(dsge.precalc_mat).eigs) > 0

\* C8: after a get_sys that emitted a system, its sixth element is the value
\* of the structural parameter x_bar if the model has one, else the derived
\* value of the functional parameter x_bar if it has one, else -1; the
\* warning is printed in the last case and only then.
C8_XBarPrecedence ==
  (op = "get_sys" /\ err.type \in {"", "ValueError:explosive"}) =>
    /\ The(dsge.sys)[6] =
         (IF dsge.xk = "struct" THEN dsge.par[NumPars]
          ELSE IF dsge.xk = "func" THEN dsge.par[1] - 3
          ELSE -1)
    /\ ("x_bar not specified" \in msgs) <=> (dsge.xk = "none")

\* C8 witness: a model with a functional x_bar compiled with non-calibrated
\* parameters
C8_Witness ==
  /\ op = "get_sys" /\ err = NoErr /\ dsge.xk = "func"
  /\ dsge.par # par_fix /\ The(dsge.sys)[6] = dsge.par[1] - 3

\* C6 as stated: the reconciliation of a cached P with the new mask never
\* raises, whatever the cached P and the mask.
C6_ReconciliationNeverRaises ==
  op = "get_sys" => err.type \notin {"ValueError:broadcast", "IndexError:mask"}

\* the mask that the last successful get_sys applied
Applied == IF Truthy(dsge.fdict.reduce_sys) THEN The(dsge.out_msk)
           ELSE [i \in 1..NumVars |-> FALSE]

\* C10: after a successful get_sys, N2 and A2 are square with the same shape,
\* J2 has as many columns as N2 has rows, cx and b2 have that length too, and
\* len(vv) == dim_v is the number of variables the applied mask keeps.
C10_ConsistentDimensions ==
  (op = "get_sys" /\ err = NoErr) =>
    LET N2 == The(dsge.sys)[1]
        A2 == The(dsge.sys)[2]
        J2 == The(dsge.sys)[3]
        cx == The(dsge.sys)[4]
        b2 == The(dsge.sys)[5]
        side == Len(N2.rows) IN
    /\ Len(N2.cols) = side
    /\ Len(A2.rows) = side /\ Len(A2.cols) = side
    /\ Len(J2.cols) = side
    /\ Len(cx.idx) = side /\ Len(b2.idx) = side
    /\ Len(The(dsge.vv)) = The(dsge.dim_v)
    /\ The(dsge.dim_v) = Cardinality({i \in 1..NumVars : ~Applied[i]})

\* C10 witness: a successful get_sys with reduce_sys on that pruned a variable
C10_Witness ==
  /\ op = "get_sys" /\ err = NoErr /\ Truthy(dsge.fdict.reduce_sys)
  /\ The(dsge.dim_v) < NumVars /\ Len(The(dsge.sys)[5].idx) < The(dsge.dim_x) + NumVars

\* set_par was called with a vector of all parameters and returned
SetFull == op = "set_par" /\ err = NoErr /\ call.setpar = None
           /\ call.dummy.kind = "vec" /\ Len(call.dummy.vec) = NumPars
\* the next call is get_par(None)
ThenGetNone == op' = "get_par" /\ call'.dummy.kind = "none" /\ call'.full

\* C2: get_par(None) right after a successful set_par(v) with v of full
\* length returns a vector that agrees with v at the estimated indices and
\* equals what set_par returned; a further get_par(None) returns the same.
C2_SetGetRoundTrip ==
  [][/\ (SetFull /\ ThenGetNone) =>
          /\ err' = NoErr /\ ret' = ret
          /\ \A i \in DOMAIN prior_arg :
               ret'[prior_arg[i]] = call.dummy.vec[prior_arg[i]]
     /\ (op = "get_par" /\ err = NoErr /\ call.dummy.kind = "none" /\ call.full
           /\ ThenGetNone) =>
          (err' = NoErr /\ ret' = ret)]_vars

\* C2 witness: get_par(None) has returned a vector other than the calibration,
\* with the estimated entries different from the first entry
C2_Witness ==
  /\ op = "get_par" /\ err = NoErr /\ call.dummy.kind = "none" /\ call.full
  /\ ret = dsge.par /\ ret[1] # ret[NumPars]

\* C3 as stated: once create_filter has attached a filter, after every
\* successful set_par the filter's Q is the one computed from the shock
\* loading and shock covariance of the parameters now stored.
C3_FilterQNeverStale ==
  (op = "set_par" /\ err = NoErr /\ Has(dsge.enkf)) =>
    The(dsge.enkf).Q = [SIG |-> The(dsge.SIG), eps_cov |-> QQ(dsge.par, "par")]

\* a set_par(name, value) call whose name is no structural parameter
SetsNonStructural ==
  /\ op' = "set_par" /\ call'.setpar # None /\ call'.dummy.kind = "str"
  /\ \A i \in 1..NumPars : dsge.parameters[i] # call'.dummy.name

\* C9: set_par with a value and the name of a functional parameter, or a name
\* that is no parameter at all, raises the usage error and leaves the object
\* (parameters, compiled system, filter) exactly as it was.
C9_SetFunctionalOrUnknownRejected ==
  [][SetsNonStructural =>
       /\ dsge' = dsge /\ ret' = None
       /\ err'.type = (IF \E i \in DOMAIN dsge.pfnames : dsge.pfnames[i] = call'.dummy.name
                       THEN "SyntaxError:function" ELSE "SyntaxError:undefined")]_vars

\* C9 witness: the functional parameter kappa was refused on a compiled model
\* that has a filter
C9_Witness ==
  /\ op = "set_par" /\ err.type = "SyntaxError:function"
  /\ call.dummy.name = "kappa" /\ Has(dsge.sys) /\ Has(dsge.enkf)

\* C4 as stated: with test_lprob, a worker only returns a draw whose
\* likelihood is finite (not an infinity, not NaN).
C4_ReturnedDrawHasFiniteLikelihood ==
  (wk.pc = "returned" /\ wk.test_lprob) => wk.draw_prob = "finite"

\* an attempt that raised or whose likelihood is not finite
Rejected(o) == o \in {"rvs", "raise", "-inf", "inf", "nan"}

\* C5 as stated: the retry counter starts at 0 and grows by exactly 1 with
\* every attempt; a test_lprob worker whose attempts all raised or gave a
\* non-finite likelihood has not returned; a worker that returns does so at its
\* first accepted attempt, with the counter equal to the attempts made.
C5_RejectionLoop ==
  [][/\ wk.pc = "idle" => wk'.no = 0
     /\ wk.pc # "idle" =>
          (wk'.no = wk.no \/ (wk'.no = wk.no + 1 /\ Len(wk'.hist) = Len(wk.hist) + 1))
     /\ wk'.no = Len(wk'.hist)
     /\ (wk'.test_lprob /\ \A i \in DOMAIN wk'.hist : Rejected(wk'.hist[i]))
          => wk'.pc # "returned"
     /\ wk'.pc = "returned" =>
          /\ wk'.no >= 1
          /\ \A i \in 1..(wk'.no - 1) : Rejected(wk'.hist[i])]_vars

\* a get_sys call that got past the reconciliation and found a cached P whose
\* side is not the number of variables its mask retains
Reconciled ==
  /\ op' = "get_sys" /\ err'.type \in {"", "ValueError:explosive"}
  /\ Has(dsge.P) /\ Len(The(dsge.P)) # The(dsge'.dim_v)
\* the variables that the entries of a cached P belong to
NamedIn(P) == {P[i][i][1] : i \in DOMAIN P}
\* the old entries at the positions of the retained variables, zeros elsewhere
Embedded(old, vv) ==
  [i \in DOMAIN vv |-> [j \in DOMAIN vv |->
     IF vv[i] \in NamedIn(old) /\ vv[j] \in NamedIn(old) THEN <<vv[i], vv[j]>> ELSE Zero]]

\* C11 as stated: when get_sys finds a cached P whose side differs from the
\* number of retained variables, afterwards P is square with side dim_v; if
\* it grew it holds the old entries at the positions of the retained
\* variables and zeros elsewhere, if it shrank it holds the rows and columns
\* of the old matrix for the surviving variables.
C11_ReconciledPFitsMask ==
  [][Reconciled =>
       LET old == The(dsge.P)
           new == The(dsge'.P)
           vv == The(dsge'.vv) IN
       /\ Shape(new) = <<The(dsge'.dim_v), The(dsge'.dim_v)>>
       /\ Len(old) < Len(vv) => new = Embedded(old, vv)
       /\ Len(old) > Len(vv) =>
            new = [i \in DOMAIN vv |-> [j \in DOMAIN vv |-> old[vv[i]][vv[j]]]]]_vars

\* the depths stored before a get_sys call, if any
StoredDepth(i, default) == IF Has(dsge.lks) THEN The(dsge.lks)[i] ELSE default

\* C12: a get_sys call with an explicit l_max stores max(l_max, 2) + 1 as
\* lks[0], printing a message when l_max is below 2; a call that omits l_max
\* keeps a stored lks[0] as it is, and with nothing stored takes 3 (1 if
\* linear); k_max is stored as passed, kept when omitted, and 17 (0 if
\* linear) with nothing stored; preprocess is handed the stored depths.
C12_DepthResolution ==
  [][op' = "get_sys" =>
       /\ The(dsge'.lks)[1] =
            (IF Has(call'.l_max)
             THEN (IF The(call'.l_max) > 2 THEN The(call'.l_max) ELSE 2) + 1
             ELSE StoredDepth(1, IF call'.linear THEN 1 ELSE 3))
       /\ ("l_max must be at least 2" \in msgs') <=>
            (Has(call'.l_max) /\ The(call'.l_max) < 2)
       /\ The(dsge'.lks)[2] =
            (IF Has(call'.k_max) THEN The(call'.k_max)
             ELSE StoredDepth(2, IF call'.linear THEN 0 ELSE 17))
       /\ err' = NoErr =>
            /\ The(dsge'.precalc_mat).l_max = The(dsge'.lks)[1]
            /\ The(dsge'.precalc_mat).k_max = The(dsge'.lks)[2]]_vars

\* C12 witness: a linear call that omits both depths has succeeded on an
\* object whose depths come from an earlier explicit call
C12_Witness ==
  /\ op = "get_sys" /\ err = NoErr
  /\ call.l_max = None /\ call.k_max = None /\ call.linear
  /\ The(dsge.lks) = <<MaxDepth + 1, MaxDepth>>
  /\ The(dsge.precalc_mat).l_max = MaxDepth + 1

\* nothing is compiled yet, or the stored ppar and sys are those compiled from
\* the stored par
Matches(d) ==
  \/ d.par = None /\ d.ppar = None /\ d.sys = None
  \/ /\ d.par # None /\ d.ppar = Some(pcompile(d.par))
     /\ Has(d.sys) /\ The(d.sys)[1].of = pcompile(d.par)
\* a get_par call with the name of a parameter set
GetsToken ==
  /\ op' = "get_par" /\ call'.dummy.kind = "str"
  /\ IndexOf(dsge.parameters, call'.dummy.name) = 0
  /\ IndexOf(dsge.pfnames, call'.dummy.name) = 0

\* C13 as stated: a successful get_sys, set_par or get_par on an object whose
\* ppar and sys were compiled from its par leaves it so; and get_par with the
\* name of a parameter set, whether it returns or raises, leaves par as it
\* was before the call.
C13_CompiledFromStoredPar ==
  [][/\ (Matches(dsge) /\ op' \in {"get_sys", "set_par", "get_par"} /\ err' = NoErr)
          => Matches(dsge')
     /\ (GetsToken /\ dsge.par # None) => dsge'.par = dsge.par]_vars

====
